---- MODULE Spec2Model ----
(***************************************************************************)
(* A model of fiql_parser: the Expression tree of expression.py, the       *)
(* Operator precedence of operator.py and the token loop of                *)
(* parse_str_to_expression in parser.py.                                   *)
(*                                                                         *)
(* Objects live in a heap: a sequence of node records, a node's identity   *)
(* is its index, 0 stands for None.  The FIQL string is read as the token  *)
(* sequence iter_parse hands to the loop: the structural characters        *)
(* "(", ")", ";", "," of each preamble one by one, and one selector per    *)
(* constraint.  Strings the program renders are token sequences over the   *)
(* same alphabet, so a rendered string can be parsed again.                *)
(***************************************************************************)
EXTENDS Integers, Sequences, FiniteSets, TLC

\* Longest token sequence the parser is fed.
MaxLen == 10

\* The selectors of the constraints of the input, in input order.
Names == <<"a", "b", "c", "d", "e", "f", "g", "h">>

Structural == {"(", ")", ";", ","}
Operators == {";", ","}
IsOperator(tok) == tok \in Operators
IsSelector(tok) == tok \notin Structural

VARIABLES
    heap,          \* every object created so far
    expression,    \* parse_str_to_expression's local `expression`
    nesting_lvl,   \* its local `nesting_lvl`
    last_element,  \* the class of its local `last_element`
    status,        \* "parsing", "returned" or "raised"
    exc,           \* the class of the exception raised, "" if none
    raised_at,     \* the source line of the raise statement, 0 if none
    consumed,      \* the tokens of fiql_str processed so far
    call           \* the last call a caller made on the objects directly

vars == <<heap, expression, nesting_lvl, last_element, status, exc, raised_at, consumed,
          call>>

----------------------------------------------------------------------------
(* operator.py *)

\* OPERATOR_MAP[value][1]
Precedence(op) == IF op = ";" THEN 2 ELSE 1

\* OPERATOR_MAP[value][0]
OperatorToPython(op) == IF op = ";" THEN "AND" ELSE "OR"

\* Operator.__lt__; `a > b` is evaluated as the reflected b < a.
OperatorLt(a, b) == Precedence(a) < Precedence(b)
OperatorGt(a, b) == OperatorLt(b, a)

----------------------------------------------------------------------------
(* expression.py: the objects *)

\* Expression.__init__ for the object that gets identity `id`.
NewExpression(id) ==
    [kind |-> "Expression", parent |-> 0, elements |-> <<>>, operator |-> "None",
     working_fragment |-> id, selector |-> ""]

\* Constraint(selector, None, None): a BaseExpression with no children.
NewConstraint(sel) ==
    [kind |-> "Constraint", parent |-> 0, elements |-> <<>>, operator |-> "None",
     working_fragment |-> 0, selector |-> sel]

\* Expression.has_constraint: the number of elements.
HasConstraint(h, self) == Len(h[self].elements)

\* add_element with line 176 as `elements.insert(0, element)`.
AddElement_Prepend(h, self, element) ==
    LET wf == h[self].working_fragment
    IN [heap |-> [h EXCEPT ![element].parent = wf,
                           ![wf].elements = <<element>> \o @],
        ret |-> self]

\* add_element without line 175: the element is appended and its parent is
\* left as it was.
AddElement_NoParent(h, self, element) ==
    LET wf == h[self].working_fragment
    IN [heap |-> [h EXCEPT ![wf].elements = Append(@, element)], ret |-> self]

\* Expression.add_element for an element that is a BaseExpression.
AddElement(h, self, element) ==
    LET wf == h[self].working_fragment
    IN [heap |-> [h EXCEPT ![element].parent = wf,
                           ![wf].elements = Append(@, element)],
        ret |-> self]

\* create_nested_expression that appends the new Expression to the receiver
\* itself instead of calling add_element.
CreateNestedExpression_OnSelf(h, self) ==
    LET sub == Len(h) + 1
        h1 == Append(h, NewExpression(sub))
    IN [heap |-> [h1 EXCEPT ![sub].parent = self,
                            ![self].elements = Append(@, sub)],
        ret |-> sub]

\* Expression.create_nested_expression
CreateNestedExpression(h, self) ==
    LET sub == Len(h) + 1
        h1 == Append(h, NewExpression(sub))
    IN [heap |-> AddElement(h1, self, sub).heap, ret |-> sub]

RECURSIVE AddOperator(_, _, _, _)

\* The tightening branch with line 150 as `elements.pop(0)`: the first child
\* of the fragment is detached instead of the last.
AddOperatorTighten_First(h, self, operator) ==
    LET wf == h[self].working_fragment
    IN IF h[wf].elements = <<>>
       THEN [heap |-> h, ret |-> 0, exc |-> "IndexError"]
       ELSE LET first == h[wf].elements[1]
                h1 == [h EXCEPT ![wf].elements = Tail(@)]
                c == CreateNestedExpression(h1, wf)
                h2 == [c.heap EXCEPT ![self].working_fragment = c.ret]
                h3 == AddElement(h2, c.ret, first).heap
                r == AddOperator(h3, c.ret, operator, {})
            IN [heap |-> r.heap, ret |-> self, exc |-> r.exc]

\* The tightening branch of add_operator (lines 149-153).
AddOperatorTighten(h, self, operator) ==
    LET wf == h[self].working_fragment
    IN IF h[wf].elements = <<>>
       THEN [heap |-> h, ret |-> 0, exc |-> "IndexError"]
       ELSE LET n == Len(h[wf].elements)
                last_constraint == h[wf].elements[n]
                h1 == [h EXCEPT ![wf].elements = SubSeq(@, 1, n - 1)]
                c == CreateNestedExpression(h1, wf)
                h2 == [c.heap EXCEPT ![self].working_fragment = c.ret]
                h3 == AddElement(h2, c.ret, last_constraint).heap
                r == AddOperator(h3, c.ret, operator, {})
            IN [heap |-> r.heap, ret |-> self, exc |-> r.exc]

\* The loosening branch with line 158 as `Expression().add_operator(operator)`:
\* the new root does not take the fragment as its child.
AddOperatorLoosen_EmptyRoot(h, self, operator, visited) ==
    LET wf == h[self].working_fragment
    IN IF h[wf].parent # 0
       THEN AddOperator(h, h[wf].parent, operator, visited \cup {self})
       ELSE LET e == Len(h) + 1
            IN AddOperator(Append(h, NewExpression(e)), e, operator, {})

\* The loosening branch of add_operator (lines 154-158).  `visited` holds the
\* receivers of the calls that are on the stack: the branch changes nothing
\* before it calls the parent, so a receiver met again is met in the same
\* state and the recursion never ends (Python ends it with RecursionError).
AddOperatorLoosen(h, self, operator, visited) ==
    LET wf == h[self].working_fragment
    IN IF h[wf].parent # 0
       THEN AddOperator(h, h[wf].parent, operator, visited \cup {self})
       ELSE LET e == Len(h) + 1
                h1 == Append(h, NewExpression(e))
                h2 == AddElement(h1, e, wf).heap
            IN AddOperator(h2, e, operator, {})

\* add_operator with line 149 as `operator >= self._working_fragment.operator`:
\* an operator of the same precedence nests too.
AddOperator_TightenOnEqual(h, self, operator, visited) ==
    LET wf == h[self].working_fragment
    IN IF self \in visited
       THEN [heap |-> h, ret |-> 0, exc |-> "RecursionError"]
       ELSE IF h[wf].operator = "None"
       THEN [heap |-> [h EXCEPT ![wf].operator = operator], ret |-> self, exc |-> ""]
       ELSE IF ~OperatorLt(operator, h[wf].operator)
       THEN AddOperatorTighten(h, self, operator)
       ELSE AddOperatorLoosen(h, self, operator, visited)

\* Expression.add_operator for an operator that is an Operator.
AddOperator(h, self, operator, visited) ==
    LET wf == h[self].working_fragment
    IN IF self \in visited
       THEN [heap |-> h, ret |-> 0, exc |-> "RecursionError"]
       ELSE IF h[wf].operator = "None"
       THEN [heap |-> [h EXCEPT ![wf].operator = operator], ret |-> self, exc |-> ""]
       ELSE IF OperatorGt(operator, h[wf].operator)
       THEN AddOperatorTighten(h, self, operator)
       ELSE IF OperatorLt(operator, h[wf].operator)
       THEN AddOperatorLoosen(h, self, operator, visited)
       ELSE [heap |-> h, ret |-> self, exc |-> ""]

\* isinstance(x, BaseExpression)
IsBaseExpression(cls) == cls \in {"Constraint", "Expression"}

\* An argument handed to add_element or add_operator: an Operator (value is
\* its symbol), a Constraint or an Expression (node is the object), or an
\* object of another type, such as a str.
OperatorArg(op) == [type |-> "Operator", value |-> op, node |-> 0]
NodeArg(h, n) == [type |-> h[n].kind, value |-> "", node |-> n]
OtherArg == [type |-> "str", value |-> "foo", node |-> 0]

\* add_operator without the type test of lines 144-145.
AddOperatorArg_Unchecked(h, self, arg) == AddOperator(h, self, arg.value, {})

\* Expression.add_operator, from its first line (lines 144-159).
AddOperatorArg(h, self, arg) ==
    IF arg.type # "Operator"
    THEN [heap |-> h, ret |-> 0, exc |-> "FiqlObjectException"]
    ELSE AddOperator(h, self, arg.value, {})

\* Expression.add_element (lines 174-179).
AddElementArg(h, self, arg) ==
    IF IsBaseExpression(arg.type)
    THEN [heap |-> AddElement(h, self, arg.node).heap, ret |-> self, exc |-> ""]
    ELSE AddOperatorArg(h, self, arg)

RECURSIVE AddElements(_, _, _)
\* `for element in elements: expression.add_element(element)`; the first
\* exception ends the loop.
AddElements(h, expr, elements) ==
    IF elements = <<>> THEN [heap |-> h, ret |-> expr, exc |-> ""]
    ELSE LET r == AddElementArg(h, expr, elements[1])
         IN IF r.exc # "" THEN r ELSE AddElements(r.heap, expr, Tail(elements))

\* op_and / op_or adding the elements to the receiver instead of the node
\* add_operator returned.
OpJoin_OnSelf(h, self, operator, elements) ==
    LET r == AddOperator(h, self, operator, {})
    IN IF r.exc # "" THEN r
       ELSE [AddElements(r.heap, self, elements) EXCEPT !.ret = r.ret]

\* Expression.op_and (operator ";") and Expression.op_or (operator ",").
OpJoin(h, self, operator, elements) ==
    LET r == AddOperator(h, self, operator, {})
    IN IF r.exc # "" THEN r ELSE AddElements(r.heap, r.ret, elements)

----------------------------------------------------------------------------
(* parser.py: parse_str_to_expression *)

\* The locals of parse_str_to_expression and the heap, as one value.
ParserState ==
    [heap |-> heap, expression |-> expression, nesting_lvl |-> nesting_lvl,
     last_element |-> last_element, status |-> status, exc |-> exc,
     raised_at |-> raised_at]

\* Lines 76-78.
InitParse ==
    [heap |-> <<NewExpression(1)>>, expression |-> 1, nesting_lvl |-> 0,
     last_element |-> "None", status |-> "parsing", exc |-> "", raised_at |-> 0]

Raise(p, class, line) ==
    [p EXCEPT !.status = "raised", !.exc = class, !.raised_at = line]

\* OpenParen with line 83 testing isinstance(last_element, Expression): a
\* group right after a constraint gets through.
OpenParen_ExpressionOnly(p) ==
    IF p.last_element = "Expression"
    THEN Raise(p, "FiqlFormatException", 84)
    ELSE LET c == CreateNestedExpression(p.heap, p.expression)
         IN [p EXCEPT !.heap = c.heap, !.expression = c.ret,
                      !.nesting_lvl = p.nesting_lvl + 1]

\* char == '(' (lines 82-88)
OpenParen(p) ==
    IF IsBaseExpression(p.last_element)
    THEN Raise(p, "FiqlFormatException", 84)
    ELSE LET c == CreateNestedExpression(p.heap, p.expression)
         IN [p EXCEPT !.heap = c.heap, !.expression = c.ret,
                      !.nesting_lvl = p.nesting_lvl + 1]

\* char == ')' (lines 89-92); get_parent raises when the parent is None.
CloseParen(p) ==
    IF p.heap[p.expression].parent = 0
    THEN Raise(p, "FiqlObjectException", 63)
    ELSE [p EXCEPT !.expression = p.heap[p.expression].parent,
                   !.last_element = "Expression",
                   !.nesting_lvl = p.nesting_lvl - 1]

\* The operator branch without the tests of lines 94-101.
OperatorChar_Unchecked(p, char) ==
    LET r == AddOperator(p.heap, p.expression, char, {})
    IN IF r.exc # ""
       THEN Raise([p EXCEPT !.last_element = "Operator"], r.exc,
                  IF r.exc = "IndexError" THEN 150 ELSE 156)
       ELSE [p EXCEPT !.heap = r.heap, !.expression = r.ret,
                      !.last_element = "Operator"]

\* any other char of the preamble, here ';' or ',' (lines 93-103)
OperatorChar(p, char) ==
    IF HasConstraint(p.heap, p.expression) = 0
    THEN Raise(p, "FiqlFormatException", 95)
    ELSE IF p.last_element = "Operator"
    THEN Raise(p, "FiqlFormatException", 99)
    ELSE LET r == AddOperator(p.heap, p.expression, char, {})
         IN IF r.exc # ""
            THEN Raise([p EXCEPT !.last_element = "Operator"], r.exc,
                       IF r.exc = "IndexError" THEN 150 ELSE 156)
            ELSE [p EXCEPT !.heap = r.heap, !.expression = r.ret,
                           !.last_element = "Operator"]

\* if selector: (lines 104-110)
Selector(p, sel) ==
    IF IsBaseExpression(p.last_element)
    THEN Raise(p, "FiqlFormatException", 106)
    ELSE LET c == Len(p.heap) + 1
             h1 == Append(p.heap, NewConstraint(sel))
         IN [p EXCEPT !.heap = AddElement(h1, p.expression, c).heap,
                      !.last_element = "Constraint"]

\* After the loop (lines 111-115).
EndOfString(p) ==
    IF p.nesting_lvl # 0
    THEN Raise(p, "FiqlFormatException", 112)
    ELSE IF HasConstraint(p.heap, p.expression) = 0
    THEN Raise(p, "FiqlFormatException", 114)
    ELSE [p EXCEPT !.status = "returned"]

\* One token of the loop.
ParseToken(p, tok) ==
    IF tok = "(" THEN OpenParen(p)
    ELSE IF tok = ")" THEN CloseParen(p)
    ELSE IF IsOperator(tok) THEN OperatorChar(p, tok)
    ELSE Selector(p, tok)

----------------------------------------------------------------------------
(* expression.py: rendering *)

RECURSIVE Flatten(_)
\* The concatenation of a sequence of sequences.
Flatten(seqs) ==
    IF seqs = <<>> THEN <<>> ELSE seqs[1] \o Flatten(Tail(seqs))

RECURSIVE Join(_, _)
\* sep.join(strs), on token sequences.
Join(sep, strs) ==
    IF strs = <<>> THEN <<>>
    ELSE IF Len(strs) = 1 THEN strs[1]
    ELSE strs[1] \o <<sep>> \o Join(sep, Tail(strs))

\* The default of lines 237 and 246 taken as Operator(',').
EffectiveOperator_DefaultOr(h, n) ==
    IF h[n].operator = "None" THEN "," ELSE h[n].operator

\* `self.operator or Operator(';')`
EffectiveOperator(h, n) == IF h[n].operator = "None" THEN ";" ELSE h[n].operator

\* Constraint.to_python of a constraint without comparison: the tuple
\* (selector, None, None), written as one leaf token.
ConstraintToPython(h, n) == <<h[n].selector>>

\* Constraint.__str__ of a constraint without comparison: the selector.
ConstraintStr(h, n) == <<h[n].selector>>

RECURSIVE ToPython_NoCollapse(_, _)
\* to_python without line 234-235: an Expression with one child is a list
\* like any other.
ToPython_NoCollapse(h, n) ==
    IF h[n].kind = "Constraint" THEN ConstraintToPython(h, n)
    ELSE LET elements == h[n].elements
         IN IF Len(elements) = 0 THEN <<"None">>
            ELSE <<"[", OperatorToPython(EffectiveOperator(h, n))>>
                 \o Flatten([i \in 1..Len(elements) |-> ToPython_NoCollapse(h, elements[i])])
                 \o <<"]">>

RECURSIVE ToPython(_, _)
\* Expression.to_python.  A list [x, y, ...] is written as the token
\* sequence "[" x y ... "]", None as the token "None".
ToPython(h, n) ==
    IF h[n].kind = "Constraint" THEN ConstraintToPython(h, n)
    ELSE LET elements == h[n].elements
         IN IF Len(elements) = 0 THEN <<"None">>
            ELSE IF Len(elements) = 1 THEN ToPython(h, elements[1])
            ELSE <<"[", OperatorToPython(EffectiveOperator(h, n))>>
                 \o Flatten([i \in 1..Len(elements) |-> ToPython(h, elements[i])])
                 \o <<"]">>

\* __str__ without lines 248-250: no Expression is put in parentheses.
NeedsParens_Never(h, n) == FALSE

\* The test of lines 248-250: the parent's operator is greater.
NeedsParens(h, n) ==
    /\ h[n].parent # 0
    /\ OperatorGt(EffectiveOperator(h, h[n].parent), EffectiveOperator(h, n))

RECURSIVE Str(_, _)
\* Expression.__str__
Str(h, n) ==
    IF h[n].kind = "Constraint" THEN ConstraintStr(h, n)
    ELSE LET elements == h[n].elements
             elements_str == Join(EffectiveOperator(h, n),
                                  [i \in 1..Len(elements) |-> Str(h, elements[i])])
         IN IF NeedsParens(h, n) THEN <<"(">> \o elements_str \o <<")">>
            ELSE elements_str

----------------------------------------------------------------------------
(* parser.py: the whole function, on a token sequence *)

RECURSIVE ParseTokens(_, _)
\* The loop of lines 79-110: it stops at the first raise.
ParseTokens(p, toks) ==
    IF toks = <<>> \/ p.status # "parsing" THEN p
    ELSE ParseTokens(ParseToken(p, toks[1]), Tail(toks))

\* parse_str_to_expression(fiql_str)
ParseStrToExpression(toks) ==
    LET p == ParseTokens(InitParse, toks)
    IN IF p.status = "parsing" THEN EndOfString(p) ELSE p

----------------------------------------------------------------------------
(* The state machine: the loop of parse_str_to_expression, one token a step *)

NumSelectors(toks) == Cardinality({i \in 1..Len(toks) : IsSelector(toks[i])})

Store(p, tok) ==
    /\ heap' = p.heap
    /\ expression' = p.expression
    /\ nesting_lvl' = p.nesting_lvl
    /\ last_element' = p.last_element
    /\ status' = p.status
    /\ exc' = p.exc
    /\ raised_at' = p.raised_at
    /\ consumed' = IF tok = "" THEN consumed ELSE Append(consumed, tok)
    /\ call' = call

More == status = "parsing" /\ Len(consumed) < MaxLen

\* No call was made on the objects directly.
NoCall ==
    [seq |-> 0, name |-> "", self |-> 0, argtype |-> "", operator |-> "",
     elements |-> <<>>, ret |-> 0, exc |-> "", before |-> <<>>]

Init ==
    /\ heap = InitParse.heap
    /\ expression = InitParse.expression
    /\ nesting_lvl = InitParse.nesting_lvl
    /\ last_element = InitParse.last_element
    /\ status = InitParse.status
    /\ exc = InitParse.exc
    /\ raised_at = InitParse.raised_at
    /\ consumed = <<>>
    /\ call = NoCall

ParseOpen == More /\ Store(ParseToken(ParserState, "("), "(")

ParseClose == More /\ Store(ParseToken(ParserState, ")"), ")")

ParseOperator ==
    /\ More
    /\ \E char \in Operators : Store(ParseToken(ParserState, char), char)

\* iter_parse never yields two constraints with an empty preamble between
\* them: a selector is matched greedily.
ParseConstraint ==
    /\ More
    /\ IF consumed = <<>> THEN TRUE ELSE ~IsSelector(consumed[Len(consumed)])
    /\ NumSelectors(consumed) < Len(Names)
    /\ LET sel == Names[NumSelectors(consumed) + 1]
       IN Store(ParseToken(ParserState, sel), sel)

ParseEnd == status = "parsing" /\ Store(EndOfString(ParserState), "")

Next == ParseOpen \/ ParseClose \/ ParseOperator \/ ParseConstraint \/ ParseEnd

Spec == Init /\ [][Next]_vars

----------------------------------------------------------------------------
(* The second state machine: a caller builds trees with the public methods *)
(* of Expression, one call a step, on any Expression it holds.             *)

\* Most objects a caller creates.
MaxNodes == 5

\* Most elements handed to one op_and or op_or call.
MaxElements == 2

\* Most calls a caller makes.
MaxCalls == 4

Expressions(h) == {n \in 1..Len(h) : h[n].kind = "Expression"}

RECURSIVE AncestorsWithin(_, _, _)
\* The nodes met by following parent links from n, at most fuel of them.
AncestorsWithin(h, n, fuel) ==
    IF fuel = 0 \/ h[n].parent = 0 THEN {}
    ELSE {h[n].parent} \cup AncestorsWithin(h, h[n].parent, fuel - 1)
Ancestors(h, n) == AncestorsWithin(h, n, Len(h))

Constraints(h) == {n \in 1..Len(h) : h[n].kind = "Constraint"}

\* Constraint(selector) with the next unused selector.
FreshConstraint(h) == NewConstraint(Names[Cardinality(Constraints(h)) + 1])

\* The Expressions a caller may still insert below `self`: those that are in
\* no tree yet and do not hold the place they would be inserted at.
Insertable(h, self) ==
    LET wf == h[self].working_fragment
    IN {e \in Expressions(h) : h[e].parent = 0 /\ e # wf /\ e \notin Ancestors(h, wf)}

Called(name, self, argtype, operator, elements, before, r) ==
    /\ call.seq < MaxCalls
    /\ Len(r.heap) <= MaxNodes
    /\ heap' = r.heap
    /\ call' = [seq |-> call.seq + 1, name |-> name, self |-> self, argtype |-> argtype,
                operator |-> operator, elements |-> elements, ret |-> r.ret,
                exc |-> r.exc, before |-> before]
    /\ UNCHANGED <<expression, nesting_lvl, last_element, status, exc, raised_at, consumed>>

\* Expression()
BuildExpression ==
    \E id \in {Len(heap) + 1} :
        Called("Expression", 0, "", "", <<>>, heap,
               [heap |-> Append(heap, NewExpression(id)), ret |-> id, exc |-> ""])

\* self.add_element(Constraint(...))
BuildAddConstraint ==
    \E self \in Expressions(heap) :
        LET h0 == Append(heap, FreshConstraint(heap))
            arg == NodeArg(h0, Len(h0))
        IN Called("add_element", self, arg.type, "", <<arg.node>>, h0,
                  AddElementArg(h0, self, arg))

\* self.add_element(e) for an Expression e built before
BuildAddExpression ==
    \E self \in Expressions(heap) : \E e \in Insertable(heap, self) :
        LET arg == NodeArg(heap, e)
        IN Called("add_element", self, arg.type, "", <<e>>, heap,
                  AddElementArg(heap, self, arg))

\* self.add_element(x) for an x that is no BaseExpression
BuildAddOther ==
    \E self \in Expressions(heap) :
        \E arg \in {OperatorArg(op) : op \in Operators} \cup {OtherArg} :
            Called("add_element", self, arg.type, arg.value, <<>>, heap,
                   AddElementArg(heap, self, arg))

\* self.add_operator(x)
BuildAddOperator ==
    \E self \in Expressions(heap) :
        \E arg \in {OperatorArg(op) : op \in Operators} \cup {OtherArg} :
            Called("add_operator", self, arg.type, arg.value, <<>>, heap,
                   AddOperatorArg(heap, self, arg))

\* self.create_nested_expression()
BuildCreateNested ==
    \E self \in Expressions(heap) :
        LET c == CreateNestedExpression(heap, self)
        IN Called("create_nested_expression", self, "", "", <<>>, heap,
                  [heap |-> c.heap, ret |-> c.ret, exc |-> ""])

RECURSIVE WithConstraints(_, _)
\* h and n more constraints, created for one call.
WithConstraints(h, n) ==
    IF n = 0 THEN h ELSE WithConstraints(Append(h, FreshConstraint(h)), n - 1)

\* self.op_and(c1, ..., cn) and self.op_or(c1, ..., cn)
BuildOpJoin ==
    \E self \in Expressions(heap) : \E op \in Operators : \E n \in 0..MaxElements :
        LET h0 == WithConstraints(heap, n)
            elements == [i \in 1..n |-> Len(heap) + i]
        IN Called(IF op = ";" THEN "op_and" ELSE "op_or", self, "Operator", op,
                  elements, h0,
                  OpJoin(h0, self, op, [i \in 1..n |-> NodeArg(h0, elements[i])]))

InitBuilder ==
    /\ heap = <<NewExpression(1)>>
    /\ expression = InitParse.expression
    /\ nesting_lvl = InitParse.nesting_lvl
    /\ last_element = InitParse.last_element
    /\ status = InitParse.status
    /\ exc = InitParse.exc
    /\ raised_at = InitParse.raised_at
    /\ consumed = <<>>
    /\ call = NoCall

NextBuilder ==
    \/ BuildExpression
    \/ BuildAddConstraint
    \/ BuildAddExpression
    \/ BuildAddOther
    \/ BuildAddOperator
    \/ BuildCreateNested
    \/ BuildOpJoin

SpecBuilder == InitBuilder /\ [][NextBuilder]_vars

----------------------------------------------------------------------------
(* The grammar of the input and the tree it denotes, for the claims *)

\* Number of "(" minus number of ")" among the first i tokens.
Depth(toks, i) ==
    Cardinality({j \in 1..i : toks[j] = "("}) - Cardinality({j \in 1..i : toks[j] = ")"})

\* An operand (a constraint or a group) may start with y right after x.
StartsOperand(tok) == IsSelector(tok) \/ tok = "("
EndsOperand(tok) == IsSelector(tok) \/ tok = ")"
GoodPair(x, y) ==
    IF EndsOperand(x) THEN IsOperator(y) \/ y = ")" ELSE StartsOperand(y)

\* toks is a prefix of some sentence of
\*   Expression := (Group | Constraint) ((";" | ",") (Group | Constraint))*
\*   Group := "(" Expression ")"
ExtendsToValid(toks) ==
    /\ toks # <<>> => StartsOperand(toks[1])
    /\ \A i \in 2..Len(toks) : GoodPair(toks[i - 1], toks[i])
    /\ \A i \in 1..Len(toks) : Depth(toks, i) >= 0

\* toks is a sentence of that grammar.
GrammarValid(toks) ==
    /\ toks # <<>>
    /\ ExtendsToValid(toks)
    /\ EndsOperand(toks[Len(toks)])
    /\ Depth(toks, Len(toks)) = 0

Balanced(toks) ==
    /\ \A i \in 1..Len(toks) : Depth(toks, i) >= 0
    /\ Depth(toks, Len(toks)) = 0

ParenFree(toks) == \A i \in 1..Len(toks) : toks[i] \notin {"(", ")"}
HasGroup(toks) == \E i \in 1..Len(toks) : toks[i] = "("

\* The reference tree of a sentence, in the notation of ToPython: a frame
\* per open group holds the finished AND runs (ors) and the operands of the
\* current AND run (ands).
EmptyFrame == [ors |-> <<>>, ands |-> <<>>]
AndForm(units) ==
    IF Len(units) = 1 THEN units[1] ELSE <<"[", "AND">> \o Flatten(units) \o <<"]">>
FrameForm(fr) ==
    LET groups == Append(fr.ors, AndForm(fr.ands))
    IN IF Len(groups) = 1 THEN groups[1] ELSE <<"[", "OR">> \o Flatten(groups) \o <<"]">>
RefStep(stack, tok) ==
    LET n == Len(stack)
        top == stack[n]
    IN IF tok = "(" THEN Append(stack, EmptyFrame)
       ELSE IF tok = ")" THEN
            [SubSeq(stack, 1, n - 1) EXCEPT ![n - 1].ands = Append(@, FrameForm(top))]
       ELSE IF tok = ";" THEN stack
       ELSE IF tok = "," THEN
            [stack EXCEPT ![n] = [ors |-> Append(top.ors, AndForm(top.ands)), ands |-> <<>>]]
       ELSE [stack EXCEPT ![n].ands = Append(@, <<tok>>)]
RECURSIVE RefFold(_, _)
RefFold(stack, toks) ==
    IF toks = <<>> THEN stack ELSE RefFold(RefStep(stack, toks[1]), Tail(toks))
RefForm(toks) == FrameForm(RefFold(<<EmptyFrame>>, toks)[1])

\* The raise statements after the loop.
EndLines == {112, 114}

\* The parse raised on a sentence of the grammar: at the end of one, or at a
\* token of a prefix of one (a raise ends the parse, whatever follows).
RejectsValidInput ==
    /\ status = "raised"
    /\ IF raised_at \in EndLines THEN GrammarValid(consumed) ELSE ExtendsToValid(consumed)

----------------------------------------------------------------------------
(* The claims *)

\* C1: for every parenthesis-free sentence c1 op1 c2 ... cn the parse
\* returns, and the to_python() form of the result is the precedence
\* grouping: the maximal ";" runs are the AND groups, joined by one OR.
C1_PrecedenceGrouping ==
    ParenFree(consumed) =>
        /\ ~RejectsValidInput
        /\ (status = "returned" /\ GrammarValid(consumed))
               => ToPython(heap, expression) = RefForm(consumed)

\* C2: for every sentence with a group the parse returns, and the
\* to_python() form of the result is the reference tree in which every
\* "(" ... ")" is one operand of its surroundings.
C2_ExplicitGrouping ==
    HasGroup(consumed) =>
        /\ ~RejectsValidInput
        /\ (status = "returned" /\ GrammarValid(consumed))
               => ToPython(heap, expression) = RefForm(consumed)

\* C3: the Expression a parse returns has no parent and every constraint of
\* the input is a descendant of it.
C3_ReturnsRoot ==
    status = "returned" =>
        /\ heap[expression].parent = 0
        /\ \A c \in Constraints(heap) : expression \in Ancestors(heap, c)

\* C4: add_operator never calls itself again on a receiver it is already
\* running on in an unchanged state, so no parse ends in endless recursion.
C4_Terminates == exc # "RecursionError"

\* C5: for every sentence s on which the parse returns, the string
\* str(parse(s)) is accepted by the parser and its tree has the same
\* to_python() form as parse(s).
C5_RoundTrip ==
    (status = "returned" /\ GrammarValid(consumed)) =>
        LET again == ParseStrToExpression(Str(heap, expression))
        IN /\ again.status = "returned"
           /\ ToPython(again.heap, again.expression) = ToPython(heap, expression)

\* C6: no sentence of the grammar is rejected.
C6_AcceptsGrammar == ~RejectsValidInput

OperatorBeforeConstraint(toks) ==
    \E i \in 1..Len(toks) :
        IsOperator(toks[i]) /\ \A j \in 1..(i - 1) : ~IsSelector(toks[j])
ConsecutiveOperators(toks) ==
    \E i \in 2..Len(toks) : IsOperator(toks[i - 1]) /\ IsOperator(toks[i])

\* C7: no parse returns for an input in which an operator comes before the
\* first constraint or directly after another operator.
C7_OperatorRejected ==
    status = "returned" =>
        ~OperatorBeforeConstraint(consumed) /\ ~ConsecutiveOperators(consumed)

\* Two operands with no operator between them: "(" right after a constraint
\* or a ")", or a constraint right after a ")".
OperandsTouch(x, y) ==
    \/ EndsOperand(x) /\ y = "("
    \/ x = ")" /\ IsSelector(y)

\* C8: a token that puts two operands side by side raises at that very
\* token: such a pair is only ever the last two tokens of a parse that
\* raised FiqlFormatException at line 84 or 106.
C8_OperandsNeedOperator ==
    \A i \in 2..Len(consumed) :
        OperandsTouch(consumed[i - 1], consumed[i]) =>
            /\ i = Len(consumed)
            /\ status = "raised"
            /\ exc = "FiqlFormatException"
            /\ raised_at = (IF consumed[i] = "(" THEN 84 ELSE 106)

\* C8 witness: a constraint right after a closed group, "(a)b", was refused.
C8_Witness ==
    /\ status = "raised"
    /\ Len(consumed) = 4
    /\ consumed[3] = ")"
    /\ IsSelector(consumed[4])
    /\ raised_at = 106

\* C9: no parse returns for an input whose parentheses do not match.
C9_UnbalancedRejected == status = "returned" => Balanced(consumed)

\* C10: no parse returns for an input without any constraint.
C10_EmptyRejected == status = "returned" => NumSelectors(consumed) > 0

\* An operator with no operand after it: the last token, or right before ")".
DanglingOperator(toks) ==
    \/ toks # <<>> /\ IsOperator(toks[Len(toks)])
    \/ \E i \in 2..Len(toks) : IsOperator(toks[i - 1]) /\ toks[i] = ")"

\* C11: no parse returns for an input in which an operator is the last
\* token or is directly followed by ")".
C11_OperatorNeedsOperand == status = "returned" => ~DanglingOperator(consumed)

----------------------------------------------------------------------------
RECURSIVE Innermost(_, _)
\* The node a chain of single-child Expressions starting at n ends in.
Innermost(h, n) ==
    IF h[n].kind = "Expression" /\ Len(h[n].elements) = 1
    THEN Innermost(h, h[n].elements[1])
    ELSE n

\* The display name of the operator of a node.
DisplayName(h, n) ==
    IF h[n].operator = "," THEN "OR" ELSE "AND"

\* The form the claim gives a node that is not a single-child Expression.
NestedForm(h, n) ==
    IF h[n].kind = "Constraint" THEN <<h[n].selector>>
    ELSE IF h[n].elements = <<>> THEN <<"None">>
    ELSE <<"[", DisplayName(h, n)>>
         \o Flatten([i \in 1..Len(h[n].elements) |-> ToPython(h, h[n].elements[i])])
         \o <<"]">>

\* C12: to_python() of an Expression is None without children, the form of
\* the innermost node of a chain of single-child wrappers, and otherwise the
\* list of the operator's display name and the children's forms in order.
C12_ToPythonForm ==
    \A n \in Expressions(heap) : ToPython(heap, n) = NestedForm(heap, Innermost(heap, n))

\* Two single-child wrappers around an Expression with several children.
C12_Witness ==
    \E n \in Expressions(heap) :
        /\ Len(heap[n].elements) = 1
        /\ LET c == heap[n].elements[1]
           IN /\ heap[c].kind = "Expression"
              /\ Len(heap[c].elements) = 1
              /\ heap[heap[c].elements[1]].kind = "Expression"
              /\ Len(heap[heap[c].elements[1]].elements) >= 2

\* The Expressions with two or more children and no operator.
Unjoined(h) ==
    {n \in Expressions(h) : h[n].operator = "None" /\ Len(h[n].elements) >= 2}

\* C13: an Expression with two or more children and no operator renders as
\* an AND node: __str__ joins the children with ";" and to_python() starts
\* with "AND".
C13_DefaultAnd ==
    \A n \in Unjoined(heap) :
        /\ Str(heap, n) = Join(";", [i \in 1..Len(heap[n].elements) |->
                                        Str(heap, heap[n].elements[i])])
        /\ SubSeq(ToPython(heap, n), 1, 2) = <<"[", "AND">>

\* Such an Expression exists, one of its children an OR group.
C13_Witness ==
    \E n \in Unjoined(heap) : \E i \in 1..Len(heap[n].elements) :
        heap[heap[n].elements[i]].operator = ","

\* The last call was add_operator with an Operator.
OperatorAdded == call.name = "add_operator" /\ call.argtype = "Operator"

\* The receiver of the last call was parentless, was its own active fragment
\* and had an operator binding strictly tighter than the one handed in.
LoosenedAtRoot ==
    /\ OperatorAdded
    /\ call.before[call.self].parent = 0
    /\ call.before[call.self].working_fragment = call.self
    /\ call.before[call.self].operator # "None"
    /\ OperatorGt(call.before[call.self].operator, call.operator)

\* C14: add_operator(op) on a parentless Expression X that is its own active
\* fragment and whose operator binds tighter than op returns a new, parentless
\* Expression R with operator op and X as its only child; X keeps its operator
\* and children, and an element added to R next becomes a sibling of X.
C14_NewRoot ==
    LoosenedAtRoot =>
        LET X == call.self
            R == call.ret
            h1 == Append(heap, FreshConstraint(heap))
            next == AddElementArg(h1, R, NodeArg(h1, Len(h1))).heap
        IN /\ call.exc = ""
           /\ R \notin DOMAIN call.before
           /\ R \in Expressions(heap)
           /\ R # X
           /\ heap[R].parent = 0
           /\ heap[R].operator = call.operator
           /\ heap[R].elements = <<X>>
           /\ heap[X].parent = R
           /\ heap[X].operator = call.before[X].operator
           /\ heap[X].elements = call.before[X].elements
           /\ next[R].elements = <<X, Len(h1)>>
           /\ next[Len(h1)].parent = R
           /\ next[X] = heap[X]

\* The case happened on an X that has children.
C14_Witness == LoosenedAtRoot /\ call.before[call.self].elements # <<>>

\* The last call handed add_element or add_operator an object that is
\* neither an Operator nor a BaseExpression.
InvalidElementHanded ==
    /\ call.name \in {"add_element", "add_operator"}
    /\ call.argtype # "Operator"
    /\ ~IsBaseExpression(call.argtype)

\* C15: add_element and add_operator raise FiqlObjectException for an
\* argument that is neither an Operator nor a Constraint or Expression, and
\* the receiver's children, operator, parent and active fragment are as before
\* the call.
C15_InvalidElementType ==
    InvalidElementHanded =>
        /\ call.exc = "FiqlObjectException"
        /\ heap[call.self].elements = call.before[call.self].elements
        /\ heap[call.self].operator = call.before[call.self].operator
        /\ heap[call.self].parent = call.before[call.self].parent
        /\ heap[call.self].working_fragment = call.before[call.self].working_fragment

\* add_element was handed such an object on a receiver that has children and
\* whose active fragment has no operator yet.
C15_Witness ==
    /\ InvalidElementHanded
    /\ call.name = "add_element"
    /\ call.before[call.self].elements # <<>>
    /\ call.before[call.before[call.self].working_fragment].operator = "None"

\* add_operator was handed such an object.
C15_WitnessOperator == InvalidElementHanded /\ call.name = "add_operator"

NestedCreated == call.name = "create_nested_expression"

\* The last call returned a new Expression without children that is the last
\* child of p and has p as its parent.
NestedUnder(p) ==
    /\ call.exc = ""
    /\ call.ret \notin DOMAIN call.before
    /\ call.ret \in Expressions(heap)
    /\ heap[call.ret].elements = <<>>
    /\ heap[call.ret].parent = p
    /\ heap[p].elements # <<>>
    /\ heap[p].elements[Len(heap[p].elements)] = call.ret

\* C16: X.create_nested_expression() returns a new empty Expression whose
\* parent is the receiver X and which is the last child of X.
C16_NestedUnderReceiver == NestedCreated => NestedUnder(call.self)

\* C16, amended: X.create_nested_expression() returns a new empty Expression
\* whose parent is the active fragment of X and which is the last child of
\* that fragment, the other children of the fragment being as before.
C16_NestedUnderFragment ==
    NestedCreated =>
        LET F == call.before[call.self].working_fragment
        IN /\ NestedUnder(F)
           /\ heap[F].elements = Append(call.before[F].elements, call.ret)

\* The call was made on an Expression whose active fragment is another node.
C16_Witness ==
    NestedCreated /\ call.before[call.self].working_fragment # call.self

\* The last call was op_and or op_or.
Joined == call.name \in {"op_and", "op_or"}

\* What add_operator does on the receiver of the last call, before the call.
JoinFirst == AddOperator(call.before, call.self, call.operator, {})

\* C17: op_and(e1..en) and op_or(e1..en) apply add_operator(AND or OR) to the
\* receiver, add e1..en in order to the node it returned and return that
\* node; a parentless receiver with a tighter operator gets a new root, whose
\* children are the receiver and then e1..en.
C17_FluentJoin ==
    Joined =>
        /\ call.operator = (IF call.name = "op_and" THEN ";" ELSE ",")
        /\ call.exc = JoinFirst.exc
        /\ call.exc = "" =>
              LET a == JoinFirst
                  F == a.heap[a.ret].working_fragment
              IN /\ call.ret = a.ret
                 /\ heap[F].elements = a.heap[F].elements \o call.elements
                 /\ \A i \in 1..Len(call.elements) : heap[call.elements[i]].parent = F
                 /\ \A n \in DOMAIN a.heap :
                        n # F /\ n \notin {call.elements[i] : i \in 1..Len(call.elements)}
                            => heap[n] = a.heap[n]
                 /\ heap[F].operator = a.heap[F].operator
        /\ ( /\ call.before[call.self].parent = 0
             /\ call.before[call.self].operator # "None"
             /\ OperatorGt(call.before[call.self].operator, call.operator) ) =>
              /\ call.exc = ""
              /\ call.ret \notin DOMAIN call.before
              /\ heap[call.ret].parent = 0
              /\ heap[call.ret].operator = call.operator
              /\ heap[call.ret].elements = <<call.self>> \o call.elements

\* op_or with two elements made a new root.
C17_Witness ==
    /\ Joined
    /\ call.exc = ""
    /\ Len(call.elements) = 2
    /\ call.ret \notin DOMAIN call.before

\* op_and with two elements returned its receiver.
C17_WitnessSame ==
    /\ call.name = "op_and"
    /\ call.exc = ""
    /\ Len(call.elements) = 2
    /\ call.ret = call.self

\* The last call was add_operator with an operator binding strictly tighter
\* than the operator of the receiver's active fragment.
TighterAdded ==
    /\ OperatorAdded
    /\ LET F == call.before[call.self].working_fragment
       IN /\ call.before[F].operator # "None"
          /\ OperatorGt(call.operator, call.before[F].operator)

\* What the tightening step leaves behind, F being the active fragment the
\* receiver had before the call.
Tightened ==
    LET F == call.before[call.self].working_fragment
        N == heap[call.self].working_fragment
        old == call.before[F].elements
    IN /\ call.exc = ""
       /\ call.ret = call.self
       /\ Len(heap[F].elements) = Len(old)
       /\ old # <<>>
       /\ N \notin DOMAIN call.before
       /\ N \in Expressions(heap)
       /\ heap[F].elements = [old EXCEPT ![Len(old)] = N]
       /\ heap[N].parent = F
       /\ heap[N].elements = <<old[Len(old)]>>
       /\ heap[old[Len(old)]].parent = N
       /\ heap[N].operator = call.operator
       /\ heap[F].operator = call.before[F].operator

\* C18: after add_operator(op) with op binding tighter than the operator of
\* the active fragment F, F has as many children as before, its last child is
\* a new Expression N with operator op whose only child is the former last
\* child of F, the receiver's active fragment is N, and the receiver is
\* returned.
C18_TighteningStep == TighterAdded => Tightened

\* The same step for a fragment that has a child to detach.
C18_TighteningWithChild ==
    (TighterAdded /\ call.before[call.before[call.self].working_fragment].elements # <<>>)
        => Tightened

\* The step detached an Expression that has several children.
C18_DetachedGroup ==
    /\ TighterAdded
    /\ Tightened
    /\ LET N == heap[call.self].working_fragment
       IN /\ heap[heap[N].elements[1]].kind = "Expression"
          /\ Len(heap[heap[N].elements[1]].elements) >= 2

\* The last call was add_operator and the receiver's active fragment had no
\* operator.
FirstOperatorAdded ==
    /\ OperatorAdded
    /\ call.before[call.before[call.self].working_fragment].operator = "None"

\* The last call was add_operator with an operator of the precedence of the
\* operator of the receiver's active fragment.
SameOperatorAdded ==
    /\ OperatorAdded
    /\ LET F == call.before[call.self].working_fragment
       IN /\ call.before[F].operator # "None"
          /\ Precedence(call.operator) = Precedence(call.before[F].operator)

\* C19: add_operator(op) on an active fragment without operator only sets the
\* fragment's operator, and on one whose operator has the precedence of op
\* writes nothing; either way no node is created, no child list, parent link
\* or active fragment changes, the receiver is returned and the next
\* add_element appends to the same fragment.
C19_NoStructuralChange ==
    (FirstOperatorAdded \/ SameOperatorAdded) =>
        LET F == call.before[call.self].working_fragment
            h1 == Append(heap, FreshConstraint(heap))
            next == AddElementArg(h1, call.self, NodeArg(h1, Len(h1))).heap
        IN /\ call.exc = ""
           /\ call.ret = call.self
           /\ DOMAIN heap = DOMAIN call.before
           /\ \A n \in DOMAIN heap :
                 /\ heap[n].elements = call.before[n].elements
                 /\ heap[n].parent = call.before[n].parent
                 /\ heap[n].working_fragment = call.before[n].working_fragment
                 /\ n # F => heap[n].operator = call.before[n].operator
           /\ FirstOperatorAdded => heap[F].operator = call.operator
           /\ SameOperatorAdded => heap = call.before
           /\ next[F].elements = Append(call.before[F].elements, Len(h1))
           /\ next[Len(h1)].parent = F

\* Both cases, on a fragment that has children: the first operator ...
C19_Witness ==
    /\ FirstOperatorAdded
    /\ call.before[call.before[call.self].working_fragment].elements # <<>>

\* ... and an operator of the same precedence, on a fragment that is not the
\* receiver.
C19_WitnessSame ==
    /\ SameOperatorAdded
    /\ call.before[call.self].working_fragment # call.self
    /\ call.before[call.before[call.self].working_fragment].elements # <<>>

RECURSIVE MergeFrom(_, _, _)
\* A nested form with every list that lies directly in a list of the same
\* operator merged into it: form[i..] is still to read, open holds, for every
\* list begun and not ended, its operator and whether it was merged away.
MergeFrom(form, i, open) ==
    IF i > Len(form) THEN <<>>
    ELSE IF form[i] = "["
    THEN LET merged == open # <<>> /\ open[Len(open)].operator = form[i + 1]
         IN (IF merged THEN <<>> ELSE <<"[", form[i + 1]>>)
            \o MergeFrom(form, i + 2, Append(open, [operator |-> form[i + 1], merged |-> merged]))
    ELSE IF form[i] = "]"
    THEN (IF open[Len(open)].merged THEN <<>> ELSE <<"]">>)
         \o MergeFrom(form, i + 1, SubSeq(open, 1, Len(open) - 1))
    ELSE <<form[i]>> \o MergeFrom(form, i + 1, open)

\* The grouping a nested form stands for.
Grouping(form) == MergeFrom(form, 1, <<>>)

\* The parentheses rule of the claim, on its own terms.
ParenthesesDue(h, n) ==
    /\ h[n].parent # 0
    /\ Precedence(IF h[h[n].parent].operator = "None" THEN ";" ELSE h[h[n].parent].operator)
         > Precedence(IF h[n].operator = "None" THEN ";" ELSE h[n].operator)

\* The rendering of n is that of its children, joined by its operator, in
\* parentheses exactly when they are due.
WrappedWhenDue(h, n) ==
    LET inner == Join(IF h[n].operator = "None" THEN ";" ELSE h[n].operator,
                      [i \in 1..Len(h[n].elements) |-> Str(h, h[n].elements[i])])
    IN Str(h, n) = IF ParenthesesDue(h, n) THEN <<"(">> \o inner \o <<")">> ELSE inner

\* The rendering of the tree below n is a sentence that reads as the tree.
ReadsAsTree(h, n) ==
    /\ GrammarValid(Str(h, n))
    /\ Grouping(RefForm(Str(h, n))) = Grouping(ToPython(h, n))

Roots(h) == {n \in Expressions(h) : h[n].parent = 0}

\* C20: __str__ puts an Expression in parentheses exactly when it has a
\* parent whose effective operator binds tighter than its own, and so the
\* rendering of every tree, read with AND binding tighter than OR, has the
\* grouping of the tree.
C20_StrKeepsGrouping ==
    /\ \A n \in Expressions(heap) : WrappedWhenDue(heap, n)
    /\ \A n \in Roots(heap) : ReadsAsTree(heap, n)

RECURSIVE Below(_, _)
\* n and the nodes below it.
Below(h, n) ==
    {n} \cup UNION {Below(h, h[n].elements[i]) : i \in 1..Len(h[n].elements)}

\* No Expression in the tree below n is without children.
Filled(h, n) == \A m \in Below(h, n) : h[m].kind = "Expression" => h[m].elements # <<>>

\* The same for the trees in which every Expression has a child.
C20_FilledKeepsGrouping ==
    /\ \A n \in Expressions(heap) : WrappedWhenDue(heap, n)
    /\ \A n \in Roots(heap) : Filled(heap, n) => ReadsAsTree(heap, n)

\* A tree in which every Expression has a child and an OR group of two lies
\* in an AND group of two: its rendering needs the parentheses.
C20_Witness ==
    \E n \in Roots(heap) :
        /\ Filled(heap, n)
        /\ Len(heap[n].elements) >= 2
        /\ heap[n].operator # ","
        /\ \E i \in 1..Len(heap[n].elements) :
               /\ heap[heap[n].elements[i]].operator = ","
               /\ Len(heap[heap[n].elements[i]].elements) >= 2

\* A tree in which a group of two lies in a group of the same operator.
C20_WitnessMerged ==
    \E n \in Roots(heap) :
        /\ Filled(heap, n)
        /\ Len(heap[n].elements) >= 2
        /\ \E i \in 1..Len(heap[n].elements) :
               /\ heap[heap[n].elements[i]].kind = "Expression"
               /\ Len(heap[heap[n].elements[i]].elements) >= 2
               /\ EffectiveOperator(heap, heap[n].elements[i]) = EffectiveOperator(heap, n)

\* The nodes that had a parent before the last call.
Owned == {n \in DOMAIN call.before : call.before[n].parent # 0}

\* C21: over add_element, add_operator and create_nested_expression calls, a
\* node that has a parent keeps that parent.
C21_ParentNeverChanges ==
    call.name \in {"add_element", "add_operator", "create_nested_expression"} =>
        \A n \in Owned : heap[n].parent = call.before[n].parent

\* The last call moved n, the last child of the receiver's active fragment,
\* into a new Expression that took its place below its former parent.
MovedIntoNested(n) ==
    LET F == call.before[call.self].working_fragment
        N == heap[n].parent
    IN /\ call.self \in DOMAIN call.before
       /\ call.before[F].elements # <<>>
       /\ n = call.before[F].elements[Len(call.before[F].elements)]
       /\ call.before[n].parent = F
       /\ call.before[F].operator = ","
       /\ call.operator = ";"
       /\ N \notin DOMAIN call.before
       /\ N \in Expressions(heap)
       /\ heap[N].parent = F
       /\ heap[N].elements # <<>>
       /\ heap[N].elements[1] = n

\* C21, amended: a node that has a parent keeps it over every call, except
\* that the tightening case of add_operator moves the last child of the
\* active fragment into the new nested Expression, whose parent is the
\* node's former parent.
C21_ParentChangesOnlyByTightening ==
    \A n \in Owned : heap[n].parent = call.before[n].parent \/ MovedIntoNested(n)

\* A tightening moved the last of several children and left the others with
\* their parent.
C21_Witness ==
    \E n \in Owned :
        /\ MovedIntoNested(n)
        /\ heap[n].parent # call.before[n].parent
        /\ Len(call.before[call.before[n].parent].elements) >= 2

\* The last call was add_operator with an operator that differs in precedence
\* from the one the receiver's active fragment had.
OtherPrecedenceAdded ==
    /\ OperatorAdded
    /\ LET F == call.before[call.self].working_fragment
       IN /\ call.before[F].operator # "None"
          /\ Precedence(call.operator) # Precedence(call.before[F].operator)

\* No call changes an operator that is set.
OperatorKept ==
    \A n \in DOMAIN call.before :
        call.before[n].operator # "None" => heap[n].operator = call.before[n].operator

\* The operator of the last call is on a node other than the fragment F the
\* receiver had: one nested in F or an ancestor of F.
OperatorElsewhere ==
    LET F == call.before[call.self].working_fragment
    IN \E m \in Expressions(heap) \ {F} :
           /\ heap[m].operator = call.operator
           /\ heap[m].parent = F \/ m \in Ancestors(heap, F)

\* C22: an operator that is set on an Expression is never changed by a later
\* call, and an operator of another precedence than the active fragment's
\* always ends up on another node, nested in the fragment or an ancestor of
\* it.
C22_OperatorWriteOnce ==
    /\ OperatorKept
    /\ OtherPrecedenceAdded => (call.exc = "" /\ OperatorElsewhere)

\* The same without the calls that end in an exception.
C22_WriteOnceWhenReturned ==
    /\ OperatorKept
    /\ (OtherPrecedenceAdded /\ call.exc = "") => OperatorElsewhere

\* A looser operator was handed to an Expression whose active fragment is
\* the nested Expression of an earlier tightening, and the call did not
\* return.
C22_LoosenAfterTighten ==
    /\ OtherPrecedenceAdded
    /\ call.before[call.self].working_fragment # call.self
    /\ call.exc = "RecursionError"

\* The number of places of P.elements that hold n.
Occurrences(h, P, n) == Cardinality({i \in 1..Len(h[P].elements) : h[P].elements[i] = n})

ClosedTooOften ==
    /\ consumed # <<>>
    /\ consumed[Len(consumed)] = ")"
    /\ Depth(consumed, Len(consumed) - 1) = 0

\* The last token consumed was a ")" and get_parent raised on it.
ParentMissing ==
    /\ consumed # <<>>
    /\ consumed[Len(consumed)] = ")"
    /\ status = "raised"
    /\ raised_at = 63

\* C24: at every point of a parse nesting_lvl is the number of ancestors of
\* the working expression, so the working expression is parentless exactly
\* when nesting_lvl is 0, and a ")" fails on a missing parent exactly when
\* there is no unclosed "(".
C24_NestingLevelIsDepth ==
    /\ nesting_lvl = Cardinality(Ancestors(heap, expression))
    /\ heap[expression].parent = 0 <=> nesting_lvl = 0
    /\ ParentMissing <=> ClosedTooOften

\* C25: in a parse the tightening case never finds the active fragment
\* without a child: elements.pop() never raises, and whenever the working
\* expression passes has_constraint(), an active fragment that a tighter
\* operator can still meet has a child, also where it is another node.
C25_TighteningFindsChild ==
    /\ exc # "IndexError"
    /\ (status = "parsing" /\ HasConstraint(heap, expression) > 0) =>
           LET F == heap[expression].working_fragment
           IN heap[F].operator = "," => heap[F].elements # <<>>

\* A parse took the tightening case: the working expression's active
\* fragment is the new nested Expression, holding the detached child.
C25_Witness ==
    /\ status = "parsing"
    /\ consumed # <<>>
    /\ consumed[Len(consumed)] = ";"
    /\ heap[expression].working_fragment # expression
    /\ Len(heap[heap[expression].working_fragment].elements) = 1

RECURSIVE Top(_, _, _)
\* The parentless node above n, at most fuel parent links away.
Top(h, n, fuel) ==
    IF fuel = 0 \/ h[n].parent = 0 THEN n ELSE Top(h, h[n].parent, fuel - 1)

RECURSIVE Leaves(_, _)
\* The selectors of the Constraints below n, from left to right.
Leaves(h, n) ==
    IF h[n].kind = "Constraint" THEN <<h[n].selector>>
    ELSE Flatten([i \in 1..Len(h[n].elements) |-> Leaves(h, h[n].elements[i])])

\* C26: after every step of a parse, the Constraint leaves of the whole tree,
\* read from left to right from its parentless top node, are the constraints
\* consumed so far, in input order, each once.
C26_ConstraintsKept ==
    status # "raised" =>
        Leaves(heap, Top(heap, expression, Len(heap))) = SelectSeq(consumed, IsSelector)

\* Three constraints are in the tree after a tightening and a new root.
C26_Witness ==
    /\ status = "parsing"
    /\ Len(SelectSeq(consumed, IsSelector)) >= 3
    /\ heap[expression].working_fragment # expression
    /\ \E n \in Expressions(heap) : n # 1 /\ heap[n].parent = 0

TypeOK ==
    /\ status \in {"parsing", "returned", "raised"}
    /\ expression \in 1..Len(heap)
    /\ last_element \in {"None", "Operator", "Constraint", "Expression"}
    /\ Len(consumed) <= MaxLen

====
